---- MODULE Spec2Model ----
(***************************************************************************)
(* A model of src/src/lib.rs: the NextWeightFile aggregate (JsonData,      *)
(* lookup table, PolyidEntry list), its two constructors from_weight_file  *)
(* and from_nwt, the dispatcher open, the encoder serialize_to_file and    *)
(* the JsonData mutators.                                                  *)
(*                                                                         *)
(* Conventions.  A Rust String is the tuple of its UTF-8 bytes.            *)
(* An f32 is its IEEE-754 bit pattern, a natural number below 2^31 (the    *)
(* model's inputs are non-negative floats and the quiet NaN).  A u32, u64  *)
(* or usize is a natural number; every value the model's inputs produce    *)
(* is far below 2^31, so no arithmetic wraps.  A file is the tuple of its  *)
(* bytes.  The target is a 64-bit one: usize is 8 bytes wide.              *)
(***************************************************************************)
EXTENDS Integers, Sequences, FiniteSets, TLC

(***************************************************************************)
(* Bounds of the model.                                                    *)
(***************************************************************************)
MaxPolyids == 2   \* regions of a dense source: 0..MaxPolyids
MaxLat == 2       \* length of the lat dimension: 1..MaxLat
MaxLon == 2       \* length of the lon dimension: 1..MaxLon
MaxPoints == 2    \* non-fill cells of a dense source, all regions together
MaxAttrs == 1     \* attributes per attribute list of a dense source
MaxCrafted == 1   \* foreign (truncated or patched) buffers handed to from_nwt
MaxStoreOps == 4  \* mutator calls on a standalone JsonData
MaxSerialize == 1 \* serialize_to_file calls of a behaviour, those of open included

(***************************************************************************)
(* Strings of the program, as byte tuples.                                 *)
(***************************************************************************)
\* b"NEWT"
MAGIC == <<78, 69, 87, 84>>
\* "_FillValue"
FILL_VALUE_NAME == <<95, 70, 105, 108, 108, 86, 97, 108, 117, 101>>
\* "polyid", "regridweights", "lat", "lon"
VAR_POLYID == <<112, 111, 108, 121, 105, 100>>
VAR_REGRIDWEIGHTS == <<114, 101, 103, 114, 105, 100, 119, 101, 105, 103, 104, 116, 115>>
VAR_LAT == <<108, 97, 116>>
VAR_LON == <<108, 111, 110>>
\* field names of JsonData, as serde writes them
FIELD_GLOBAL_ATTRS == <<103, 108, 111, 98, 97, 108, 95, 97, 116, 116, 114, 115>>
FIELD_PER_VARIABLE_ATTRS == <<112, 101, 114, 95, 118, 97, 114, 105, 97, 98, 108, 101, 95, 97, 116, 116, 114, 115>>
FIELD_POLYIDS == <<112, 111, 108, 121, 105, 100, 115>>

(***************************************************************************)
(* Sequence helpers.                                                       *)
(***************************************************************************)
RECURSIVE Flatten(_)
Flatten(ss) == IF ss = <<>> THEN <<>> ELSE Head(ss) \o Flatten(Tail(ss))

\* s[from..to) in Rust's half-open notation (0-based); the caller has checked the range
Slice(s, from, to) == SubSeq(s, from + 1, to)

\* whether &s[from..to] is in range: Rust panics otherwise
InRange(s, from, to) == from <= to /\ to <= Len(s)

SeqsUpTo(n, S) == UNION {[1..k -> S] : k \in 0..n}

Reverse(s) == [i \in 1..Len(s) |-> s[Len(s) + 1 - i]]

\* A HashMap iterates its keys in an order its hasher decides: any order of the
\* keys S.
RECURSIVE IterationOrders(_)
IterationOrders(S) ==
    IF S = {} THEN {<<>>}
    ELSE UNION {{<<x>> \o p : p \in IterationOrders(S \ {x})} : x \in S}

(***************************************************************************)
(* Little-endian integers: to_le_bytes and from_le_bytes.                  *)
(***************************************************************************)
RECURSIVE ToLeBytes(_, _)
ToLeBytes(v, width) ==
    IF width = 0 THEN <<>> ELSE <<v % 256>> \o ToLeBytes(v \div 256, width - 1)

RECURSIVE FromLeBytes(_)
FromLeBytes(bytes) ==
    IF bytes = <<>> THEN 0 ELSE Head(bytes) + 256 * FromLeBytes(Tail(bytes))

(***************************************************************************)
(* serde_json, for the one type it is used on: JsonData.  to_string writes *)
(* the struct as an object with its fields in declaration order, a tuple   *)
(* as an array, a HashMap as an object in the map's iteration order, and a *)
(* string between quotes with the quote, the backslash and the control     *)
(* characters escaped, no white space anywhere.  from_str reads more than  *)
(* to_string writes: white space around the tokens, \uXXXX escapes, the    *)
(* fields of the struct in any order, fields it does not know (their       *)
(* values are skipped), and the struct as an array of its three fields.    *)
(***************************************************************************)
\* the lower-case hexadecimal digit d
HexDigit(d) == IF d < 10 THEN 48 + d ELSE 87 + d

EscapeChar(c) ==
    CASE c = 34 -> <<92, 34>>
      [] c = 92 -> <<92, 92>>
      [] c = 8  -> <<92, 98>>
      [] c = 9  -> <<92, 116>>
      [] c = 10 -> <<92, 110>>
      [] c = 12 -> <<92, 102>>
      [] c = 13 -> <<92, 114>>
      [] c >= 0 /\ c < 32 /\ c \notin {8, 9, 10, 12, 13} ->
            <<92, 117, 48, 48, HexDigit(c \div 16), HexDigit(c % 16)>>
      [] OTHER  -> <<c>>

JsonString(s) == <<34>> \o Flatten([i \in 1..Len(s) |-> EscapeChar(s[i])]) \o <<34>>

\* items joined by commas between the brackets open and close
JsonJoin(open, items, close) ==
    <<open>>
    \o Flatten([i \in 1..Len(items) |-> IF i = 1 THEN items[i] ELSE <<44>> \o items[i]])
    \o <<close>>

JsonPair(kv) == JsonJoin(91, <<JsonString(kv[1]), JsonString(kv[2])>>, 93)

JsonPairList(kvs) == JsonJoin(91, [i \in 1..Len(kvs) |-> JsonPair(kvs[i])], 93)

JsonStrList(ss) == JsonJoin(91, [i \in 1..Len(ss) |-> JsonString(ss[i])], 93)

\* order: the keys of the map in the order the HashMap iterates them
JsonMap(m, order) ==
    JsonJoin(123, [i \in 1..Len(order) |->
                     JsonString(order[i]) \o <<58>> \o JsonPairList(m[order[i]])], 125)

JsonField(name, value) == JsonString(name) \o <<58>> \o value

ToJson(jd, order) ==
    JsonJoin(123, << JsonField(FIELD_GLOBAL_ATTRS, JsonPairList(jd.global_attrs)),
                     JsonField(FIELD_PER_VARIABLE_ATTRS, JsonMap(jd.per_variable_attrs, order)),
                     JsonField(FIELD_POLYIDS, JsonStrList(jd.polyids)) >>, 125)

\* A parse step's outcome: ok, the value, and the 1-based position after it.
ParseFail == [ok |-> FALSE, val |-> <<>>, nxt |-> 0]
ParseOk(v, n) == [ok |-> TRUE, val |-> v, nxt |-> n]

At(buf, i) == IF i >= 1 /\ i <= Len(buf) THEN buf[i] ELSE -1

IsJsonSpace(c) == c \in {9, 10, 13, 32}

\* the first position from i on that holds no white space
RECURSIVE SkipWs(_, _)
SkipWs(buf, i) == IF IsJsonSpace(At(buf, i)) THEN SkipWs(buf, i + 1) ELSE i

\* the character of a one-letter escape, -1 for a letter that is none
Unescape(e) ==
    CASE e = 34 -> 34
      [] e = 92 -> 92
      [] e = 47 -> 47
      [] e = 98 -> 8
      [] e = 116 -> 9
      [] e = 110 -> 10
      [] e = 102 -> 12
      [] e = 114 -> 13
      [] OTHER -> -1

\* the value of a hexadecimal digit in either case, -1 for another byte
HexVal(c) ==
    IF c >= 48 /\ c <= 57 THEN c - 48
    ELSE IF c >= 65 /\ c <= 70 THEN c - 55
    ELSE IF c >= 97 /\ c <= 102 THEN c - 87
    ELSE -1

\* the value of the four hexadecimal digits at i, -1 if they are not four
Hex4(buf, i) ==
    IF \E k \in 0..3 : HexVal(At(buf, i + k)) = -1 THEN -1
    ELSE 4096 * HexVal(At(buf, i)) + 256 * HexVal(At(buf, i + 1))
         + 16 * HexVal(At(buf, i + 2)) + HexVal(At(buf, i + 3))

\* char::encode_utf8
Utf8Encode(n) ==
    IF n < 128 THEN <<n>>
    ELSE IF n < 2048 THEN <<192 + (n \div 64), 128 + (n % 64)>>
    ELSE IF n < 65536
         THEN <<224 + (n \div 4096), 128 + ((n \div 64) % 64), 128 + (n % 64)>>
    ELSE <<240 + (n \div 262144), 128 + ((n \div 4096) % 64), 128 + ((n \div 64) % 64),
           128 + (n % 64)>>

\* the escape \uXXXX whose digits are at i, n1 being their value: the bytes of the
\* character and the position after the escape.  A leading surrogate wants a
\* (0xD800..0xDBFF) wants a trailing one (0xDC00..0xDFFF) in a second escape; a
\* surrogate alone is an error.
UnicodeEscape(buf, i, n1) ==
    IF n1 = -1 \/ n1 \in 56320..57343 THEN ParseFail
    ELSE IF n1 \notin 55296..56319 THEN ParseOk(Utf8Encode(n1), i + 4)
    ELSE IF At(buf, i + 4) = 92 /\ At(buf, i + 5) = 117
            /\ Hex4(buf, i + 6) \in 56320..57343
         THEN ParseOk(Utf8Encode(65536 + (n1 - 55296) * 1024 + (Hex4(buf, i + 6) - 56320)),
                      i + 10)
    ELSE ParseFail

\* the escape whose letter is at i
ParseEscape(buf, i) ==
    IF At(buf, i) = 117 THEN UnicodeEscape(buf, i + 1, Hex4(buf, i + 1))
    ELSE IF Unescape(At(buf, i)) = -1 THEN ParseFail
    ELSE ParseOk(<<Unescape(At(buf, i))>>, i + 1)

\* the characters of a string after its opening quote, c being the one at i
RECURSIVE ParseStrBody(_, _, _, _)
\* the string goes on after the escape e
AfterEscape(buf, e, acc) ==
    IF ~e.ok THEN ParseFail ELSE ParseStrBody(buf, e.nxt, At(buf, e.nxt), acc \o e.val)

ParseStrBody(buf, i, c, acc) ==
    IF c = -1 \/ (c >= 0 /\ c < 32) THEN ParseFail
    ELSE IF c = 34 THEN ParseOk(acc, i + 1)
    ELSE IF c = 92 THEN AfterEscape(buf, ParseEscape(buf, i + 1), acc)
    ELSE ParseStrBody(buf, i + 1, At(buf, i + 1), Append(acc, c))

\* a String: white space, the opening quote, then the characters
ParseStr(buf, i) ==
    LET j == SkipWs(buf, i) IN
    IF At(buf, j) = 34 THEN ParseStrBody(buf, j + 1, At(buf, j + 1), <<>>) ELSE ParseFail

\* a step that follows the step st: fails if st failed or the byte after st and
\* white space is not c
Expect(buf, st, c) ==
    IF st.ok /\ At(buf, SkipWs(buf, st.nxt)) = c
    THEN [st EXCEPT !.nxt = SkipWs(buf, st.nxt) + 1]
    ELSE ParseFail

\* the step st, with the value of the step v that followed it added by Append
Both(st, v) == IF st.ok /\ v.ok THEN ParseOk(Append(st.val, v.val), v.nxt) ELSE ParseFail

\* a string after the step st
ThenStr(buf, st) == IF st.ok THEN Both(st, ParseStr(buf, st.nxt)) ELSE ParseFail

\* (String, String): ["k","v"]
ParsePair(buf, i) ==
    Expect(buf,
           ThenStr(buf, Expect(buf, ThenStr(buf, Expect(buf, ParseOk(<<>>, i), 91)), 44)),
           93)

\* after an element e of an array: a comma and more elements, or the closing bracket
RECURSIVE ParseElems(_, _, _)
ElemEnd(buf, e, j, isPair) ==
    IF At(buf, j) = 44 THEN ParseElems(buf, [e EXCEPT !.nxt = j + 1], isPair)
    ELSE IF At(buf, j) = 93 THEN [e EXCEPT !.nxt = j + 1]
    ELSE ParseFail

AfterElem(buf, e, isPair) ==
    IF ~e.ok THEN ParseFail ELSE ElemEnd(buf, e, SkipWs(buf, e.nxt), isPair)

\* the elements of an array from st.nxt on, st.val being those before: isPair picks
\* the element
ParseElems(buf, st, isPair) ==
    AfterElem(buf,
              Both(st, IF isPair THEN ParsePair(buf, st.nxt) ELSE ParseStr(buf, st.nxt)),
              isPair)

\* the array whose opening bracket is at i - 1, j being the position after the
\* bracket and white space
ArrayFrom(buf, j, isPair) ==
    IF At(buf, j) = 93 THEN ParseOk(<<>>, j + 1)
    ELSE ParseElems(buf, ParseOk(<<>>, j), isPair)

\* Vec<(String, String)> if isPair, Vec<String> if not: white space, the opening
\* bracket, then the elements
ParseArray(buf, i, isPair) ==
    LET j == SkipWs(buf, i) IN
    IF At(buf, j) /= 91 THEN ParseFail ELSE ArrayFrom(buf, SkipWs(buf, j + 1), isPair)

\* a later duplicate of a key replaces the earlier entry, as HashMap::insert does
MapPut(m, k, v) == [x \in DOMAIN m \cup {k} |-> IF x = k THEN v ELSE m[x]]

\* the array of pairs after the step k
ThenPairs(buf, k) == IF k.ok THEN Both(k, ParseArray(buf, k.nxt, TRUE)) ELSE ParseFail

\* "key":[...] at position i
ParseEntry(buf, i) == ThenPairs(buf, Expect(buf, ThenStr(buf, ParseOk(<<>>, i)), 58))

\* after an entry e of an object, acc being the map before it
RECURSIVE ParseEntries(_, _, _)
EntryEnd(buf, e, j, acc) ==
    IF At(buf, j) = 44 THEN ParseEntries(buf, j + 1, MapPut(acc, e.val[1], e.val[2]))
    ELSE IF At(buf, j) = 125 THEN ParseOk(MapPut(acc, e.val[1], e.val[2]), j + 1)
    ELSE ParseFail

AfterEntry(buf, e, acc) ==
    IF ~e.ok THEN ParseFail ELSE EntryEnd(buf, e, SkipWs(buf, e.nxt), acc)

ParseEntries(buf, i, acc) == AfterEntry(buf, ParseEntry(buf, i), acc)

\* the object whose opening brace is before j, j being the position after the brace
\* and white space
MapFrom(buf, j) ==
    IF At(buf, j) = 125 THEN ParseOk(<<>>, j + 1) ELSE ParseEntries(buf, j, <<>>)

\* HashMap<String, Vec<(String, String)>>: white space, the opening brace, then the
\* entries
ParseMap(buf, i) ==
    LET j == SkipWs(buf, i) IN
    IF At(buf, j) /= 123 THEN ParseFail ELSE MapFrom(buf, SkipWs(buf, j + 1))

(***************************************************************************)
(* The value of a field JsonData does not have is read and dropped: any    *)
(* JSON value.  The operators give the position after the value, 0 for a   *)
(* text that is no value.                                                  *)
(***************************************************************************)
IsDigit(c) == c >= 48 /\ c <= 57

\* the first position from i on that holds no digit
RECURSIVE SkipDigits(_, _)
SkipDigits(buf, i) == IF IsDigit(At(buf, i)) THEN SkipDigits(buf, i + 1) ELSE i

\* after the integer or the fraction of a number: an exponent or the end
ExponentEnd(buf, k) ==
    LET s == IF At(buf, k + 1) \in {43, 45} THEN k + 2 ELSE k + 1 IN
    IF At(buf, k) \notin {69, 101} THEN k
    ELSE IF IsDigit(At(buf, s)) THEN SkipDigits(buf, s + 1)
    ELSE 0

\* after the integer of a number: a fraction, an exponent or the end
FractionEnd(buf, k) ==
    IF k = 0 THEN 0
    ELSE IF At(buf, k) /= 46 THEN ExponentEnd(buf, k)
    ELSE IF ~IsDigit(At(buf, k + 1)) THEN 0
    ELSE ExponentEnd(buf, SkipDigits(buf, k + 2))

\* the integer of a number, its first digit at j: 0 alone, or digits from 1..9 on
IntegerEnd(buf, j) ==
    IF At(buf, j) = 48 THEN (IF IsDigit(At(buf, j + 1)) THEN 0 ELSE j + 1)
    ELSE IF IsDigit(At(buf, j)) THEN SkipDigits(buf, j + 1)
    ELSE 0

SkipNumber(buf, i) ==
    FractionEnd(buf, IntegerEnd(buf, IF At(buf, i) = 45 THEN i + 1 ELSE i))

\* a string that is dropped, from the position after its opening quote: the digits
\* of \uXXXX are checked, the character they give is not
RECURSIVE SkipStrBody(_, _)
SkipStrBody(buf, i) ==
    IF At(buf, i) = -1 \/ At(buf, i) < 32 THEN 0
    ELSE IF At(buf, i) = 34 THEN i + 1
    ELSE IF At(buf, i) /= 92 THEN SkipStrBody(buf, i + 1)
    ELSE IF At(buf, i + 1) = 117
         THEN (IF Hex4(buf, i + 2) = -1 THEN 0 ELSE SkipStrBody(buf, i + 6))
    ELSE IF Unescape(At(buf, i + 1)) = -1 THEN 0
    ELSE SkipStrBody(buf, i + 2)

SkipLiteral(buf, i, lit) ==
    IF i + Len(lit) - 1 <= Len(buf) /\ SubSeq(buf, i, i + Len(lit) - 1) = lit
    THEN i + Len(lit) ELSE 0

RECURSIVE SkipValueAt(_, _)
RECURSIVE SkipItems(_, _)
RECURSIVE SkipMembers(_, _)

\* after a value of an array that ended before p: a comma and a value, or the
\* closing bracket
SkipItemsEnd(buf, j) ==
    IF At(buf, j) = 44 THEN SkipItems(buf, SkipValueAt(buf, SkipWs(buf, j + 1)))
    ELSE IF At(buf, j) = 93 THEN j + 1
    ELSE 0

SkipItems(buf, p) == IF p = 0 THEN 0 ELSE SkipItemsEnd(buf, SkipWs(buf, p))

\* the value of a member whose key ended before p: the colon, then the value
SkipMemberValue(buf, j) ==
    IF At(buf, j) = 58 THEN SkipValueAt(buf, SkipWs(buf, j + 1)) ELSE 0

\* a member whose key's opening quote is at j: the key, the colon and the value
SkipMember(buf, j) ==
    IF At(buf, j) /= 34 \/ SkipStrBody(buf, j + 1) = 0 THEN 0
    ELSE SkipMemberValue(buf, SkipWs(buf, SkipStrBody(buf, j + 1)))

\* after a member of an object: a comma and a member, or the closing brace
SkipMembersEnd(buf, j) ==
    IF At(buf, j) = 44 THEN SkipMembers(buf, SkipMember(buf, SkipWs(buf, j + 1)))
    ELSE IF At(buf, j) = 125 THEN j + 1
    ELSE 0

SkipMembers(buf, p) == IF p = 0 THEN 0 ELSE SkipMembersEnd(buf, SkipWs(buf, p))

\* the array whose opening bracket is before j
SkipArrayFrom(buf, j) ==
    IF At(buf, j) = 93 THEN j + 1 ELSE SkipItems(buf, SkipValueAt(buf, j))

\* the object whose opening brace is before j
SkipObjectFrom(buf, j) ==
    IF At(buf, j) = 125 THEN j + 1 ELSE SkipMembers(buf, SkipMember(buf, j))

\* the value that starts at j
SkipValueAt(buf, j) ==
    CASE At(buf, j) = 34 -> SkipStrBody(buf, j + 1)
      [] At(buf, j) = 116 -> SkipLiteral(buf, j, <<116, 114, 117, 101>>)
      [] At(buf, j) = 102 -> SkipLiteral(buf, j, <<102, 97, 108, 115, 101>>)
      [] At(buf, j) = 110 -> SkipLiteral(buf, j, <<110, 117, 108, 108>>)
      [] At(buf, j) = 45 \/ IsDigit(At(buf, j)) -> SkipNumber(buf, j)
      [] At(buf, j) = 91 -> SkipArrayFrom(buf, SkipWs(buf, j + 1))
      [] At(buf, j) = 123 -> SkipObjectFrom(buf, SkipWs(buf, j + 1))
      [] OTHER -> 0

\* any value: white space, then the value
SkipValue(buf, i) == SkipValueAt(buf, SkipWs(buf, i))

(***************************************************************************)
(* The struct JsonData.                                                    *)
(***************************************************************************)
\* the field a key names
FieldKind(name) ==
    CASE name = FIELD_GLOBAL_ATTRS -> "pairs"
      [] name = FIELD_PER_VARIABLE_ATTRS -> "map"
      [] name = FIELD_POLYIDS -> "strs"
      [] OTHER -> "unknown"

\* the value of a field of this kind at i
FieldValue(buf, i, kind) ==
    CASE kind = "pairs" -> ParseArray(buf, i, TRUE)
      [] kind = "map" -> ParseMap(buf, i)
      [] kind = "strs" -> ParseArray(buf, i, FALSE)
      [] OTHER -> IF SkipValue(buf, i) = 0 THEN ParseFail
                  ELSE ParseOk(<<>>, SkipValue(buf, i))

\* the fields read so far, with the value v of the field of this kind
PutField(acc, kind, v) ==
    CASE kind = "pairs" -> [acc EXCEPT !.found = @ \cup {kind}, !.pairs = v]
      [] kind = "map" -> [acc EXCEPT !.found = @ \cup {kind}, !.map = v]
      [] kind = "strs" -> [acc EXCEPT !.found = @ \cup {kind}, !.strs = v]
      [] OTHER -> acc

RECURSIVE ParseFields(_, _, _)
\* after the value of a field: a comma and a field, or the closing brace
FieldSep(buf, j, acc) ==
    IF At(buf, j) = 44 THEN ParseFields(buf, j + 1, acc)
    ELSE IF At(buf, j) = 125 THEN ParseOk(acc, j + 1)
    ELSE ParseFail

\* the value v of a field of this kind has been read
FieldEnd(buf, kind, v, acc) ==
    IF ~v.ok THEN ParseFail
    ELSE FieldSep(buf, SkipWs(buf, v.nxt), PutField(acc, kind, v.val))

\* the key k and the colon have been read: a field read twice is an error
FieldOf(buf, k, acc) ==
    IF ~k.ok \/ FieldKind(k.val) \in acc.found THEN ParseFail
    ELSE FieldEnd(buf, FieldKind(k.val), FieldValue(buf, k.nxt, FieldKind(k.val)), acc)

\* the fields of the object from the key at i on
ParseFields(buf, i, acc) == FieldOf(buf, Expect(buf, ParseStr(buf, i), 58), acc)

\* the object ends: a field that was not read is an error
AllFields(st) ==
    IF st.ok /\ st.val.found = {"pairs", "map", "strs"}
    THEN ParseOk(<<st.val.pairs, st.val.map, st.val.strs>>, st.nxt)
    ELSE ParseFail

\* the struct as an object, j being the position after the brace and white space
StructObject(buf, j) ==
    IF At(buf, j) = 125 THEN ParseFail ELSE AllFields(ParseFields(buf, j,
                               [found |-> {}, pairs |-> <<>>, map |-> <<>>, strs |-> <<>>]))

\* the value of a field of this kind after the step k
ThenField(buf, k, kind) ==
    IF k.ok THEN Both(k, FieldValue(buf, k.nxt, kind)) ELSE ParseFail

\* the struct as an array of its three fields, the bracket at i
StructSeq(buf, i) ==
    Expect(buf,
      ThenField(buf,
        Expect(buf,
          ThenField(buf,
            Expect(buf, ThenField(buf, ParseOk(<<>>, i + 1), "pairs"), 44),
            "map"),
          44),
        "strs"),
      93)

StructAt(buf, j) ==
    IF At(buf, j) = 123 THEN StructObject(buf, SkipWs(buf, j + 1))
    ELSE IF At(buf, j) = 91 THEN StructSeq(buf, j)
    ELSE ParseFail

\* the end of the text: white space only
JsonEnd(buf, st) ==
    IF st.ok /\ \A j \in st.nxt..Len(buf) : IsJsonSpace(buf[j])
    THEN ParseOk([global_attrs |-> st.val[1], per_variable_attrs |-> st.val[2],
                  polyids |-> st.val[3]], Len(buf) + 1)
    ELSE ParseFail

\* serde_json::from_str::<JsonData>
FromJson(buf) == JsonEnd(buf, StructAt(buf, SkipWs(buf, 1)))

\* the length of the UTF-8 sequence that starts with byte b at i, 0 if none does
Utf8SeqLen(bytes, i) ==
    LET b == bytes[i]
        c1 == At(bytes, i + 1)
        IsCont(c) == c >= 128 /\ c <= 191
    IN  IF b < 128 THEN 1
        ELSE IF b >= 194 /\ b <= 223 THEN (IF IsCont(c1) THEN 2 ELSE 0)
        ELSE IF b >= 224 /\ b <= 239
             THEN (IF /\ IsCont(c1) /\ IsCont(At(bytes, i + 2))
                      /\ (b = 224 => c1 >= 160)
                      /\ (b = 237 => c1 <= 159)
                   THEN 3 ELSE 0)
        ELSE IF b >= 240 /\ b <= 244
             THEN (IF /\ IsCont(c1) /\ IsCont(At(bytes, i + 2)) /\ IsCont(At(bytes, i + 3))
                      /\ (b = 240 => c1 >= 144)
                      /\ (b = 244 => c1 <= 143)
                   THEN 4 ELSE 0)
        ELSE 0

\* String::from_utf8: the bytes are a chain of UTF-8 sequences, that is, every
\* byte that is no continuation byte starts a sequence, and every continuation
\* byte is within the sequence that the one to three bytes before it start
IsUtf8(bytes) ==
    \A i \in 1..Len(bytes) :
        IF bytes[i] \in 128..191
        THEN \E k \in 1..3 :
                /\ i - k >= 1
                /\ bytes[i - k] \notin 128..191
                /\ Utf8SeqLen(bytes, i - k) > k
        ELSE Utf8SeqLen(bytes, i) > 0

(***************************************************************************)
(* f32 values, as IEEE-754 bit patterns.  `!=` on f32 is false exactly for *)
(* two equal non-NaN values (no negative zero among the model's inputs).   *)
(***************************************************************************)
F32 == [nan |-> 2143289344,       \* the quiet NaN 0x7FC00000
        ncfill |-> 2096103424,    \* 9.96921e+36, netCDF's default float fill
        one |-> 1065353216,       \* 1.0
        ten |-> 1092616192,       \* 10.0
        twenty |-> 1101004800]    \* 20.0

IsNaN(x) == x = F32.nan

F32Ne(x, y) == IsNaN(x) \/ IsNaN(y) \/ x /= y

(***************************************************************************)
(* JsonData: the metadata store.                                           *)
(***************************************************************************)
\* JsonData::new
JsonDataNew == [global_attrs |-> <<>>, per_variable_attrs |-> <<>>, polyids |-> <<>>]

\* JsonData::add_global_attr
add_global_attr(jd, key, value) ==
    [jd EXCEPT !.global_attrs = Append(@, <<key, value>>)]

\* JsonData::add_variable: HashMap::insert of a fresh Vec under the name
add_variable(jd, variable_name) ==
    [jd EXCEPT !.per_variable_attrs = MapPut(@, variable_name, <<>>)]

\* JsonData::add_variable_attr
add_variable_attr(jd, var_name, key, value) ==
    LET jd1 == IF var_name \notin DOMAIN jd.per_variable_attrs
               THEN add_variable(jd, var_name) ELSE jd
    IN  [jd1 EXCEPT !.per_variable_attrs[var_name] = Append(@, <<key, value>>)]

\* JsonData::add_polyid
add_polyid(jd, polyid) == [jd EXCEPT !.polyids = Append(@, polyid)]

(***************************************************************************)
(* Results.  A Result<_, String> is a record with tag "Ok" or "Err"; a     *)
(* call that panics (an unwrap of a failure, an index or a slice out of    *)
(* range) has tag "Panic" and returns nothing to its caller.               *)
(***************************************************************************)
Ok(v) == [tag |-> "Ok", val |-> v, msg |-> ""]
Err(m) == [tag |-> "Err", val |-> <<>>, msg |-> m]
Panic(m) == [tag |-> "Panic", val |-> <<>>, msg |-> m]
NotCalled == [tag |-> "None", val |-> <<>>, msg |-> ""]

(***************************************************************************)
(* from_weight_file.  A dense source nc is what the netcdf crate shows of  *)
(* the file: attrs, the global attributes in file order; vars, the         *)
(* variables in file order, each with its attributes; the values of the    *)
(* variables polyid, lat and lon; the fill value and, per region, the      *)
(* row-major lat x lon slice of regridweights.  An attribute value has a   *)
(* kind: "Str", "Strs" (a Vec<String> of any length but one) or "Other".   *)
(***************************************************************************)
\* the match on attr.value(): lines 41-45 and 56-60
AttrValueOf(attr) ==
    CASE attr.kind = "Str" -> Ok(attr.strs[1])
      [] attr.kind = "Strs" ->
            IF Len(attr.strs) = 0 THEN Panic("index out of bounds: a[0]")
            ELSE Ok(attr.strs[1])
      [] OTHER -> Err("Unexpected attribute type")

\* the loop over the global attributes, from attribute i on
RECURSIVE GlobalAttrLoop(_, _, _)
GlobalAttrLoop(attrs, i, jd) ==
    IF i > Len(attrs) THEN Ok(jd)
    ELSE LET v == AttrValueOf(attrs[i]) IN
         IF v.tag /= "Ok" THEN v
         ELSE GlobalAttrLoop(attrs, i + 1, add_global_attr(jd, attrs[i].name, v.val))

\* whether the attribute loop of a variable takes this attribute
KeepsVarAttr(attr) == attr.name /= FILL_VALUE_NAME

\* the loop over one variable's attributes, from attribute i on
RECURSIVE VarAttrLoop(_, _, _, _)
VarAttrLoop(var_name, attrs, i, jd) ==
    IF i > Len(attrs) THEN Ok(jd)
    ELSE IF ~KeepsVarAttr(attrs[i]) THEN VarAttrLoop(var_name, attrs, i + 1, jd)
    ELSE LET v == AttrValueOf(attrs[i]) IN
         IF v.tag /= "Ok" THEN v
         ELSE VarAttrLoop(var_name, attrs, i + 1,
                          add_variable_attr(jd, var_name, attrs[i].name, v.val))

\* the loop over the variables, from variable i on
RECURSIVE VariableLoop(_, _, _)
VariableLoop(vars, i, jd) ==
    IF i > Len(vars) THEN Ok(jd)
    ELSE LET r == VarAttrLoop(vars[i].name, vars[i].attrs, 1, add_variable(jd, vars[i].name)) IN
         IF r.tag /= "Ok" THEN r ELSE VariableLoop(vars, i + 1, r.val)

\* the loop that stores the polyids
RECURSIVE PolyidLoop(_, _, _)
PolyidLoop(values, i, jd) ==
    IF i > Len(values) THEN jd
    ELSE PolyidLoop(values, i + 1, add_polyid(jd, values[i]))

HasVar(nc, name) == \E i \in 1..Len(nc.vars) : nc.vars[i].name = name

HasFillValue(nc) ==
    \E i \in 1..Len(nc.vars) :
        /\ nc.vars[i].name = VAR_REGRIDWEIGHTS
        /\ \E j \in 1..Len(nc.vars[i].attrs) : nc.vars[i].attrs[j].name = FILL_VALUE_NAME

\* a column-major index: not what the code computes
CellIndexColumnMajor(lat_idx, lon_idx, lat_len, lon_len) == lon_idx * lat_len + lat_idx

\* the index of cell (lat_idx, lon_idx) in the region's slice (0-based)
CellIndex(lat_idx, lon_idx, lat_len, lon_len) == lat_idx * lon_len + lon_idx

\* the test on a cell's value
IsRetained(data_value, fill) == F32Ne(data_value, fill)

\* PolyidEntry::add_point
add_point(entry, lat_idx, lon_idx, lat, lon, value) ==
    Append(entry, <<lat_idx, lon_idx, lat, lon, value>>)

\* the two nested loops over one region's slice, from cell (lat_idx, lon_idx) on
RECURSIVE CellLoop(_, _, _, _, _, _, _, _)
CellLoop(dat_slice, lat_idx, lon_idx, lat_len, lon_len, lat_vals, lon_vals, st) ==
    IF lat_idx >= lat_len THEN st.entry
    ELSE IF lon_idx >= lon_len
         THEN CellLoop(dat_slice, lat_idx + 1, 0, lat_len, lon_len, lat_vals, lon_vals, st)
    ELSE LET data_value == dat_slice[CellIndex(lat_idx, lon_idx, lat_len, lon_len) + 1] IN
         CellLoop(dat_slice, lat_idx, lon_idx + 1, lat_len, lon_len, lat_vals, lon_vals,
                  [st EXCEPT !.entry =
                      IF IsRetained(data_value, st.fill)
                      THEN add_point(@, lat_idx, lon_idx, lat_vals[lat_idx + 1],
                                     lon_vals[lon_idx + 1], data_value)
                      ELSE @])

\* one region: a new PolyidEntry filled from the region's slice
ExtractRegion(dat_slice, lat_len, lon_len, lat_vals, lon_vals, fill) ==
    CellLoop(dat_slice, 0, 0, lat_len, lon_len, lat_vals, lon_vals,
             [entry |-> <<>>, fill |-> fill])

\* the lookup table of the entries from entry i on
RECURSIVE BuildLookupTable(_, _, _, _)
BuildLookupTable(polyid_gridpoints, i, running_total, lookup_table) ==
    IF i > Len(polyid_gridpoints) THEN lookup_table
    ELSE LET entry_size == Len(polyid_gridpoints[i]) IN
         BuildLookupTable(polyid_gridpoints, i + 1, running_total + entry_size,
                          Append(lookup_table, <<running_total, entry_size>>))

NextWeightFile(json_data, lat_len, lon_len, polyid_gridpoints, lookup_table) ==
    [json_data |-> json_data, lat_len |-> lat_len, lon_len |-> lon_len,
     polyid_gridpoints |-> polyid_gridpoints, lookup_table |-> lookup_table]

\* NextWeightFile::from_weight_file on the dense source nc
FromWeightFileResult(nc) ==
    LET g == GlobalAttrLoop(nc.attrs, 1, JsonDataNew)
        v == VariableLoop(nc.vars, 1, g.val)
    IN  IF g.tag /= "Ok" THEN g
        ELSE IF v.tag /= "Ok" THEN v
        ELSE IF ~HasVar(nc, VAR_POLYID) \/ ~HasVar(nc, VAR_REGRIDWEIGHTS)
                \/ ~HasVar(nc, VAR_LAT) \/ ~HasVar(nc, VAR_LON)
             THEN Panic("unwrap of a missing variable")
        ELSE IF ~HasFillValue(nc) THEN Panic("unwrap of a missing fill value")
        ELSE LET json_data == PolyidLoop(nc.polyid, 1, v.val)
                 lat_len == Len(nc.lat)
                 lon_len == Len(nc.lon)
                 polyid_gridpoints ==
                     [p \in 1..Len(nc.polyid) |->
                         ExtractRegion(nc.regridweights[p], lat_len, lon_len,
                                       nc.lat, nc.lon, nc.fill)]
                 lookup_table == BuildLookupTable(polyid_gridpoints, 1, 0, <<>>)
             IN  Ok(NextWeightFile(json_data, lat_len, lon_len, polyid_gridpoints, lookup_table))

(***************************************************************************)
(* serialize_to_file.  The file is written by a sequence of write calls;   *)
(* WriteCalls lists the byte block of each, in order.                      *)
(***************************************************************************)
\* size_of::<u64>(), size_of::<usize>() on a 64-bit target, size_of::<f32>()
SIZE_U64 == 8
SIZE_USIZE == 8
SIZE_32 == 4
\* size_of::<(u64, u64)>()
SIZE_LOOKUP_ENTRY == 2 * SIZE_U64

\* let json_offset = size_of::<u64>() * 6 + 4
JsonOffset == SIZE_U64 * 6 + 4

\* the header: the magic and the six fields
HeaderWrites(self, serialized_dat) ==
    LET json_offset == JsonOffset
        lookup_offset == json_offset + Len(serialized_dat)
    IN  << MAGIC,
           ToLeBytes(Len(serialized_dat), SIZE_U64),
           ToLeBytes(Len(self.json_data.polyids), SIZE_U64),
           ToLeBytes(self.lat_len, SIZE_U64),
           ToLeBytes(self.lon_len, SIZE_U64),
           ToLeBytes(json_offset, SIZE_USIZE),
           ToLeBytes(lookup_offset, SIZE_USIZE) >>

\* two writes per lookup table entry
LookupWrites(lookup_table) ==
    Flatten([i \in 1..Len(lookup_table) |->
                << ToLeBytes(lookup_table[i][1], SIZE_U64),
                   ToLeBytes(lookup_table[i][2], SIZE_U64) >>])

\* five writes per point
PointWrites(v) ==
    << ToLeBytes(v[1], SIZE_32), ToLeBytes(v[2], SIZE_32), ToLeBytes(v[3], SIZE_32),
       ToLeBytes(v[4], SIZE_32), ToLeBytes(v[5], SIZE_32) >>

EntryWrites(d) == Flatten([i \in 1..Len(d) |-> PointWrites(d[i])])

GridpointWrites(polyid_gridpoints) ==
    Flatten([i \in 1..Len(polyid_gridpoints) |-> EntryWrites(polyid_gridpoints[i])])

\* order: the iteration order of self.json_data.per_variable_attrs
WriteCalls(self, order) ==
    LET serialized_dat == ToJson(self.json_data, order) IN
    HeaderWrites(self, serialized_dat)
    \o << serialized_dat >>
    \o LookupWrites(self.lookup_table)
    \o GridpointWrites(self.polyid_gridpoints)

\* the file after a serialization in which every write succeeded
Encode(self, order) == Flatten(WriteCalls(self, order))

(***************************************************************************)
(* from_nwt on the bytes data of the file.  Every slice of data is         *)
(* range-checked by Rust and panics when out of range.                     *)
(***************************************************************************)
\* u64::from_le_bytes of &data[co..co+8], or -1 where the slice panics
ReadU64(data, co) ==
    IF InRange(data, co, co + SIZE_U64) THEN FromLeBytes(Slice(data, co, co + SIZE_U64)) ELSE -1

\* the six header fields, read at co = 4, 12, ..., 44
ReadHeader(data) ==
    [json_len |-> ReadU64(data, 4),
     num_polyids |-> ReadU64(data, 12),
     lat_len |-> ReadU64(data, 20),
     lon_len |-> ReadU64(data, 28),
     json_offset |-> ReadU64(data, 36),
     lookup_offset |-> ReadU64(data, 44)]

HeaderInRange(data) == InRange(data, 44, 44 + SIZE_U64)

\* the lookup table from its bytes: one (u64, u64) per 16 bytes
ReadLookupTable(lookup_table_bytes) ==
    [i \in 1..(Len(lookup_table_bytes) \div SIZE_LOOKUP_ENTRY) |->
        << FromLeBytes(Slice(lookup_table_bytes, (i - 1) * 16, (i - 1) * 16 + 8)),
           FromLeBytes(Slice(lookup_table_bytes, (i - 1) * 16 + 8, (i - 1) * 16 + 16)) >>]

\* one point: five 4-byte fields from co on
ReadPoint(data, co) ==
    [f \in 1..5 |-> FromLeBytes(Slice(data, co + (f - 1) * SIZE_32, co + f * SIZE_32))]

\* num_coords points from co on: the entry and the offset after it, or a panic
RECURSIVE ReadEntry(_, _, _, _)
ReadEntry(data, co, num_coords, curr_polyid) ==
    IF num_coords = 0 THEN [ok |-> TRUE, entry |-> curr_polyid, co |-> co]
    ELSE IF ~InRange(data, co, co + 5 * SIZE_32) THEN [ok |-> FALSE, entry |-> <<>>, co |-> co]
    ELSE LET v == ReadPoint(data, co) IN
         ReadEntry(data, co + 5 * SIZE_32, num_coords - 1,
                   add_point(curr_polyid, v[1], v[2], v[3], v[4], v[5]))

\* the entries of regions i..num_polyids, from co on
RECURSIVE ReadGridpoints(_, _, _, _, _, _)
ReadGridpoints(data, co, lookup_table, i, num_polyids, polyid_gridpoints) ==
    IF i > num_polyids THEN [ok |-> TRUE, val |-> polyid_gridpoints]
    ELSE LET e == ReadEntry(data, co, lookup_table[i][2], <<>>) IN
         IF ~e.ok THEN [ok |-> FALSE, val |-> <<>>]
         ELSE ReadGridpoints(data, e.co, lookup_table, i + 1, num_polyids,
                             Append(polyid_gridpoints, e.entry))

\* whether the first four bytes are the magic; the caller has checked the range
HasMagic(data) == Slice(data, 0, 4) = MAGIC

\* NextWeightFile::from_nwt on a file holding data
FromNwtResult(data) ==
    IF ~InRange(data, 0, 4) THEN Panic("slice out of range: magic")
    ELSE IF ~HasMagic(data) THEN Err("Invalid file format")
    ELSE IF ~HeaderInRange(data) THEN Panic("slice out of range: header")
    ELSE LET h == ReadHeader(data) IN
    IF ~InRange(data, h.json_offset, h.json_offset + h.json_len)
    THEN Panic("slice out of range: json")
    ELSE LET string_buffer == Slice(data, h.json_offset, h.json_offset + h.json_len)
             json == FromJson(string_buffer)
             lookup_end == h.lookup_offset + h.num_polyids * SIZE_LOOKUP_ENTRY
    IN
    IF ~IsUtf8(string_buffer) THEN Panic("unwrap: from_utf8")
    ELSE IF ~json.ok THEN Panic("unwrap: serde_json::from_str")
    ELSE IF ~InRange(data, h.lookup_offset, lookup_end)
    THEN Panic("slice out of range: lookup table")
    ELSE LET lookup_table == ReadLookupTable(Slice(data, h.lookup_offset, lookup_end))
             g == ReadGridpoints(data, lookup_end, lookup_table, 1, h.num_polyids, <<>>)
    IN
    IF ~g.ok THEN Panic("slice out of range: point")
    ELSE Ok(NextWeightFile(json.val, h.lat_len, h.lon_len, g.val, lookup_table))

(***************************************************************************)
(* The dense sources of the model.                                         *)
(***************************************************************************)
RECURSIVE SubsetsUpTo(_, _)
SubsetsUpTo(S, n) ==
    IF n = 0 THEN {{}}
    ELSE LET smaller == SubsetsUpTo(S, n - 1) IN
         smaller \cup {T \cup {x} : T \in smaller, x \in S}

Attr(name, kind, strs) == [name |-> name, kind |-> kind, strs |-> strs]

\* the _FillValue attribute of regridweights: a float
FillAttr == Attr(FILL_VALUE_NAME, "Other", <<>>)

\* the attributes a source may carry: named k or _FillValue; a string, a string
\* holding a quote and a backslash, an empty or a two-element string sequence, or
\* a value of another type
AttrChoices ==
    {Attr(n, v[1], v[2]) :
        n \in {<<107>>, FILL_VALUE_NAME},
        v \in { <<"Str", << <<97>> >> >>, <<"Str", << <<34, 92>> >> >>,
                <<"Strs", <<>> >>, <<"Strs", << <<98>>, <<97>> >> >>,
                <<"Other", <<>> >> }}

\* the weight of cell i of region p: distinct floats from 1.0 up
WeightOf(p, i, cells) == F32.one + (p - 1) * cells + i

\* a source with regions polyids, a lat x lon grid, the cells S non-fill
Source(attrs, lat_attrs, polyids, lat_len, lon_len, fill, S) ==
    [attrs |-> attrs,
     vars |-> << [name |-> VAR_POLYID, attrs |-> <<>>],
                 [name |-> VAR_LAT, attrs |-> lat_attrs],
                 [name |-> VAR_LON, attrs |-> <<>>],
                 [name |-> VAR_REGRIDWEIGHTS, attrs |-> <<FillAttr>>] >>,
     polyid |-> [p \in 1..polyids |-> <<112, 48 + p>>],
     lat |-> [i \in 1..lat_len |-> F32.ten + i],
     lon |-> [i \in 1..lon_len |-> F32.twenty + i],
     fill |-> fill,
     regridweights |->
        [p \in 1..polyids |->
            [i \in 1..(lat_len * lon_len) |->
                IF <<p, i>> \in S THEN WeightOf(p, i, lat_len * lon_len) ELSE fill]]]

\* the sources that vary the grid
GridCases ==
    UNION {
        {Source(<< Attr(<<107>>, "Str", << <<97>> >>) >>, <<>>, n, la, lo, f, S) :
            S \in SubsetsUpTo((1..n) \X (1..(la * lo)), MaxPoints)} :
        n \in 0..MaxPolyids, la \in 1..MaxLat, lo \in 1..MaxLon,
        f \in {F32.ncfill, F32.nan}}

\* the sources that vary the attributes
AttrCases ==
    {Source(g, v, 1, 1, 1, F32.ncfill, {<<1, 1>>}) :
        g \in SeqsUpTo(MaxAttrs, AttrChoices), v \in SeqsUpTo(MaxAttrs, AttrChoices)}

NetcdfFiles == GridCases \cup AttrCases

(***************************************************************************)
(* The state.                                                              *)
(*   netcdf    the dense source at the path given to from_weight_file      *)
(*   file      the .nwt file on disk: whether it exists, its bytes, the    *)
(*             model whose serialization wrote it and whether every write  *)
(*             of that serialization wrote its whole block                 *)
(*   weight    the Result of the last constructor call, the function       *)
(*             called (from_weight_file, from_nwt, open) and the path it   *)
(*             was given: the dense source, the .nwt file, a foreign file  *)
(*   ser       the Result of the last serialize_to_file call               *)
(*   data      the bytes the call that gave weight read as a .nwt file     *)
(*             (none for a dense source); where from: the                  *)
(*             .nwt file, or a foreign file that is a written file         *)
(*             truncated or patched; and the written file it derives of    *)
(*   crafted   the number of foreign buffers from_nwt has been given       *)
(*   json_data, before, last                                               *)
(*             a JsonData under construction, its value before the last    *)
(*             mutator call, and that call                                 *)
(*   raw       what the last get_raw_gridpoints call on the model in       *)
(*             weight returned, if it was called since weight was set      *)
(*   serialized                                                            *)
(*             the number of serialize_to_file calls so far                *)
(***************************************************************************)
VARIABLES netcdf, file, weight, ser, data, crafted, json_data, before, last, raw,
          serialized

vars == <<netcdf, file, weight, ser, data, crafted, json_data, before, last, raw,
          serialized>>

NoFile == [exists |-> FALSE, bytes |-> <<>>, self |-> <<>>, complete |-> FALSE]
NoData == [from |-> "none", bytes |-> <<>>, of |-> <<>>]
NoRaw == [called |-> FALSE, val |-> <<>>]
NoCall == [op |-> "none", var |-> <<>>, key |-> <<>>, value |-> <<>>, n |-> 0]

InitCommon ==
    /\ file = NoFile
    /\ weight = [via |-> "none", path |-> "none", res |-> NotCalled]
    /\ ser = NotCalled
    /\ data = NoData
    /\ crafted = 0
    /\ json_data = JsonDataNew
    /\ before = JsonDataNew
    /\ last = NoCall
    /\ raw = NoRaw
    /\ serialized = 0

Init == netcdf \in NetcdfFiles /\ InitCommon

(***************************************************************************)
(* The operations.                                                         *)
(***************************************************************************)
\* from_weight_file(path) on the dense source
FromWeightFile ==
    /\ weight' = [via |-> "from_weight_file", path |-> "dense",
                  res |-> FromWeightFileResult(netcdf)]
    /\ data' = NoData
    /\ raw' = NoRaw
    /\ UNCHANGED <<netcdf, file, ser, crafted, json_data, before, last, serialized>>

\* The file system may take fewer bytes than serialize_to_file writes (a full
\* disk, a file size limit).  The limits the model draws, for a file of len bytes:
\* no byte, the magic only, a cut inside the json text, a cut inside the last write.
DiskLimits(len) == {l \in {0, Len(MAGIC), JsonOffset + 8, len - 2} : l >= 0 /\ l < len}

\* whether serialize_to_file returns Ok(()) when the file system takes limit bytes
\* of the blocks: write() then writes a part of the block that crosses the limit
\* and returns Ok, and its count is dropped; the write after it fails and unwrap
\* panics.  write!() of the json text fails when it is cut.  So the call returns
\* Ok only when the block cut short is the last one, a part of it is written and
\* it is not the json text (block 8).
ShortWriteIsOk(blocks, limit) ==
    /\ Len(blocks) > 8
    /\ limit > Len(Flatten(blocks)) - Len(blocks[Len(blocks)])

\* the outcome of serialize_to_file on self when the file system takes limit bytes
LimitedWrite(self, blocks, limit) ==
    [res |-> IF ShortWriteIsOk(blocks, limit) THEN Ok(<<>>) ELSE Panic("unwrap: write"),
     wrote |-> TRUE,
     file |-> [exists |-> TRUE, bytes |-> SubSeq(Flatten(blocks), 1, limit), self |-> self,
               complete |-> FALSE]]

\* the outcomes of one serialize_to_file call on self: File::create fails; or every
\* write writes its block, for each iteration order of the map; or the file system
\* takes a part of the bytes only, after File::create has emptied the file
SerializeOutcomes(self) ==
    {[res |-> Err("Failed to open file for serialization"), wrote |-> FALSE,
      file |-> NoFile]}
    \cup {[res |-> Ok(<<>>), wrote |-> TRUE,
           file |-> [exists |-> TRUE, bytes |-> Encode(self, o), self |-> self,
                     complete |-> TRUE]] :
             o \in IterationOrders(DOMAIN self.json_data.per_variable_attrs)}
    \cup UNION {{LimitedWrite(self, WriteCalls(self, o), l) :
                    l \in DiskLimits(Len(Encode(self, o)))} :
                o \in IterationOrders(DOMAIN self.json_data.per_variable_attrs)}

\* self.serialize_to_file(None) on the weight file the caller holds
SerializeToFile ==
    /\ serialized < MaxSerialize
    /\ weight.res.tag = "Ok"
    /\ serialized' = serialized + 1
    /\ \E out \in SerializeOutcomes(weight.res.val) :
        /\ ser' = out.res
        /\ file' = IF out.wrote THEN out.file ELSE file
    /\ UNCHANGED <<netcdf, weight, data, crafted, json_data, before, last, raw>>

\* from_nwt(path) on the .nwt file as it is on disk
FromNwt ==
    /\ weight' = [via |-> "from_nwt", path |-> "nwt",
                  res |-> IF file.exists THEN FromNwtResult(file.bytes)
                          ELSE Panic("unwrap: File::open")]
    /\ data' = [from |-> IF file.exists THEN "file" ELSE "none", bytes |-> file.bytes,
                of |-> file.bytes]
    /\ raw' = NoRaw
    /\ UNCHANGED <<netcdf, file, ser, crafted, json_data, before, last, serialized>>

\* the four bytes open reads: what the file holds, zero-padded
FirstFour(bytes) == [i \in 1..4 |-> IF i <= Len(bytes) THEN bytes[i] ELSE 0]

\* open(path) on the dense source: ingestion, then the cache write
OpenDense ==
    LET a == FromWeightFileResult(netcdf) IN
    /\ IF a.tag /= "Ok"
       THEN /\ weight' = [via |-> "open", path |-> "dense", res |-> a]
            /\ UNCHANGED <<file, ser, serialized>>
       ELSE /\ serialized < MaxSerialize
            /\ \E out \in SerializeOutcomes(a.val) :
                /\ ser' = out.res
                /\ file' = IF out.wrote THEN out.file ELSE file
                /\ weight' = [via |-> "open", path |-> "dense",
                              res |-> IF out.res.tag = "Ok" THEN a ELSE out.res]
            /\ serialized' = serialized + 1
    /\ data' = NoData
    /\ raw' = NoRaw
    /\ UNCHANGED <<netcdf, crafted, json_data, before, last>>

\* open(path) on the .nwt file: File::open(&path).unwrap() panics when there is no
\* such file; a file that starts with the magic goes to from_nwt, any other to
\* from_weight_file, where netcdf::open(path).unwrap() panics on it
OpenNwt ==
    /\ IF ~file.exists
       THEN /\ weight' = [via |-> "open", path |-> "nwt",
                          res |-> Panic("unwrap: File::open")]
            /\ data' = NoData
       ELSE IF FirstFour(file.bytes) = MAGIC
       THEN /\ weight' = [via |-> "open", path |-> "nwt", res |-> FromNwtResult(file.bytes)]
            /\ data' = [from |-> "file", bytes |-> file.bytes, of |-> file.bytes]
       ELSE /\ weight' = [via |-> "open", path |-> "nwt",
                          res |-> Panic("unwrap: netcdf::open")]
            /\ data' = NoData
    /\ raw' = NoRaw
    /\ UNCHANGED <<netcdf, file, ser, crafted, json_data, before, last, serialized>>

Next == FromWeightFile \/ SerializeToFile \/ FromNwt \/ OpenDense \/ OpenNwt

Spec == Init /\ [][Next]_vars

(***************************************************************************)
(* from_nwt on foreign files.  A foreign file is a file serialize_to_file  *)
(* wrote, cut short or with one field overwritten.  The patches keep every *)
(* field the decoder reads below 2^31.                                     *)
(***************************************************************************)
\* bytes with the u64 at offset at replaced by v
PatchU64(bytes, at, v) ==
    [i \in 1..Len(bytes) |->
        IF i > at /\ i <= at + SIZE_U64 THEN ToLeBytes(v, SIZE_U64)[i - at] ELSE bytes[i]]

Truncations(bytes) == {SubSeq(bytes, 1, k) : k \in 0..(Len(bytes) - 1)}

\* the first byte of the magic replaced
BadMagics(bytes) == {[bytes EXCEPT ![1] = 0]}

\* a smaller region count in the header
RegionCountPatches(bytes) ==
    {PatchU64(bytes, 12, v) : v \in 0..(ReadU64(bytes, 12) - 1)}

\* one field of one lookup table entry replaced by a value up to MaxPoints
LookupPatches(bytes) ==
    LET n == ReadU64(bytes, 12)
        lookup_offset == ReadU64(bytes, 44)
    IN  {PatchU64(bytes, lookup_offset + (i - 1) * SIZE_LOOKUP_ENTRY + f * SIZE_U64, v) :
            i \in 1..n, f \in {0, 1}, v \in 0..MaxPoints} \ {bytes}

\* a metadata-blob length one off
JsonLenPatches(bytes) ==
    {PatchU64(bytes, 4, ReadU64(bytes, 4) - 1), PatchU64(bytes, 4, ReadU64(bytes, 4) + 1)}

ForeignFiles(bytes) ==
    {[from |-> "truncated", bytes |-> b, of |-> bytes] : b \in Truncations(bytes)}
    \cup {[from |-> "bad magic", bytes |-> b, of |-> bytes] : b \in BadMagics(bytes)}
    \cup {[from |-> "patched", bytes |-> b, of |-> bytes] :
            b \in RegionCountPatches(bytes) \cup LookupPatches(bytes)
                  \cup JsonLenPatches(bytes)}

\* from_nwt(path) on a foreign file derived of the file on disk
FromNwtForeign ==
    /\ crafted < MaxCrafted
    /\ file.exists /\ file.complete
    /\ \E d \in ForeignFiles(file.bytes) :
        /\ data' = d
        /\ weight' = [via |-> "from_nwt", path |-> "foreign", res |-> FromNwtResult(d.bytes)]
    /\ crafted' = crafted + 1
    /\ raw' = NoRaw
    /\ UNCHANGED <<netcdf, file, ser, json_data, before, last, serialized>>

\* the sources of the decoder's specification: the largest grid, the default fill,
\* the non-fill cells among the first and the last cell of each region
DecodeSources ==
    {Source(<< Attr(<<107>>, "Str", << <<97>> >>) >>, <<>>, MaxPolyids, MaxLat, MaxLon,
            F32.ncfill, S) :
        S \in SubsetsUpTo((1..MaxPolyids) \X {1, MaxLat * MaxLon}, MaxPoints)}

InitDecode == netcdf \in DecodeSources /\ InitCommon

NextDecode == FromWeightFile \/ SerializeToFile \/ FromNwt \/ FromNwtForeign

SpecDecode == InitDecode /\ [][NextDecode]_vars

(***************************************************************************)
(* A JsonData built by calls of its mutators.                              *)
(***************************************************************************)
StoreVars == {VAR_LAT, VAR_LON}
StoreKeys == {<<107>>}
StoreValues == {<<97>>, <<98>>}
StorePolyids == {<<112, 48>>}

Call(op, var, key, value) ==
    [op |-> op, var |-> var, key |-> key, value |-> value, n |-> last.n + 1]

AddGlobalAttr ==
    /\ last.n < MaxStoreOps
    /\ \E k \in StoreKeys, v \in StoreValues :
        /\ json_data' = add_global_attr(json_data, k, v)
        /\ last' = Call("add_global_attr", <<>>, k, v)
    /\ before' = json_data
    /\ UNCHANGED <<netcdf, file, weight, ser, data, crafted, raw, serialized>>

AddVariable ==
    /\ last.n < MaxStoreOps
    /\ \E x \in StoreVars :
        /\ json_data' = add_variable(json_data, x)
        /\ last' = Call("add_variable", x, <<>>, <<>>)
    /\ before' = json_data
    /\ UNCHANGED <<netcdf, file, weight, ser, data, crafted, raw, serialized>>

AddVariableAttr ==
    /\ last.n < MaxStoreOps
    /\ \E x \in StoreVars, k \in StoreKeys, v \in StoreValues :
        /\ json_data' = add_variable_attr(json_data, x, k, v)
        /\ last' = Call("add_variable_attr", x, k, v)
    /\ before' = json_data
    /\ UNCHANGED <<netcdf, file, weight, ser, data, crafted, raw, serialized>>

AddPolyid ==
    /\ last.n < MaxStoreOps
    /\ \E id \in StorePolyids :
        /\ json_data' = add_polyid(json_data, id)
        /\ last' = Call("add_polyid", <<>>, <<>>, id)
    /\ before' = json_data
    /\ UNCHANGED <<netcdf, file, weight, ser, data, crafted, raw, serialized>>

InitStore ==
    /\ netcdf = Source(<<>>, <<>>, 0, 1, 1, F32.ncfill, {})
    /\ InitCommon

NextStore == AddGlobalAttr \/ AddVariable \/ AddVariableAttr \/ AddPolyid

SpecStore == InitStore /\ [][NextStore]_vars

(***************************************************************************)
(* get_raw_gridpoints on a model from_weight_file built.                   *)
(***************************************************************************)
\* the inner loop: the points of one region pushed to ret, from point j on
RECURSIVE RawPointLoop(_, _, _)
RawPointLoop(region, j, ret) ==
    IF j > Len(region) THEN ret
    ELSE RawPointLoop(region, j + 1,
                      Append(ret, <<region[j][1], region[j][2], region[j][3],
                                    region[j][4], region[j][5]>>))

\* the outer loop: the regions from region i on
RECURSIVE RawRegionLoop(_, _, _)
RawRegionLoop(polyid_gridpoints, i, ret) ==
    IF i > Len(polyid_gridpoints) THEN ret
    ELSE RawRegionLoop(polyid_gridpoints, i + 1, RawPointLoop(polyid_gridpoints[i], 1, ret))

\* the regions taken from the last to the first: not what the code computes
get_raw_gridpoints_last_first(self) == RawRegionLoop(Reverse(self.polyid_gridpoints), 1, <<>>)

\* NextWeightFile::get_raw_gridpoints
get_raw_gridpoints(self) == RawRegionLoop(self.polyid_gridpoints, 1, <<>>)

\* a.get_raw_gridpoints() on the weight file the caller holds
GetRawGridpoints ==
    /\ weight.res.tag = "Ok"
    /\ raw' = [called |-> TRUE, val |-> get_raw_gridpoints(weight.res.val)]
    /\ UNCHANGED <<netcdf, file, weight, ser, data, crafted, json_data, before, last, serialized>>

NextRaw == FromWeightFile \/ GetRawGridpoints

SpecRaw == Init /\ [][NextRaw]_vars

(***************************************************************************)
(* The properties.                                                         *)
(***************************************************************************)
\* the model the last constructor call returned
Returned == weight.res.val

\* the number of points of the entries before entry i
RECURSIVE PointsBefore(_, _)
PointsBefore(entries, i) ==
    IF i <= 1 THEN 0 ELSE PointsBefore(entries, i - 1) + Len(entries[i - 1])

\* the sum of the counts of the lookup table entries before entry i
RECURSIVE CountsBefore(_, _)
CountsBefore(table, i) ==
    IF i <= 1 THEN 0 ELSE CountsBefore(table, i - 1) + table[i - 1][2]

\* C1: decoding the file that a serialize_to_file call which returned Ok wrote of
\* a model M gives a model with the global attributes, the per-variable attributes,
\* the polyids, the lookup table and the entries of M.
RoundTripIdentity ==
    (weight.via = "from_nwt" /\ weight.path = "nwt" /\ file.exists /\ ser.tag = "Ok"
        /\ data.bytes = file.bytes)
    => /\ weight.res.tag = "Ok"
       /\ Returned.json_data = file.self.json_data
       /\ Returned.lookup_table = file.self.lookup_table
       /\ Returned.polyid_gridpoints = file.self.polyid_gridpoints

\* C2: from_nwt on a written file cut short returns an error value to its caller.
TruncationRejected ==
    (weight.via = "from_nwt" /\ data.from = "truncated") => weight.res.tag = "Err"

\* whether the buffer starts with the four bytes NEWT
StartsWithMagic(bytes) == Len(bytes) >= 4 /\ SubSeq(bytes, 1, 4) = <<78, 69, 87, 84>>

\* C3: from_nwt on a buffer that does not start with NEWT, a buffer of fewer than
\* four bytes included, returns the format error.
MagicRejected ==
    (weight.via = "from_nwt" /\ weight.path \in {"nwt", "foreign"} /\ data.from /= "none"
        /\ ~StartsWithMagic(data.bytes))
    => weight.res = Err("Invalid file format")

\* cell (r, c) of region p of the dense source, rows and columns from 0
Cell(p, r, c) == netcdf.regridweights[p][r * Len(netcdf.lon) + c + 1]

\* the sparse point of cell (r, c) of region p
PointOf(p, r, c) == <<r, c, netcdf.lat[r + 1], netcdf.lon[c + 1], Cell(p, r, c)>>

\* whether point a is before point b in row-major order
RowMajorBefore(a, b) == a[1] < b[1] \/ (a[1] = b[1] /\ a[2] < b[2])

\* the entry e holds one point for each cell of region p that differs from the fill
\* value, no other point, in row-major order
IsSparseFormOf(e, p) ==
    /\ \A k \in 1..Len(e) :
        /\ e[k][1] \in 0..(Len(netcdf.lat) - 1)
        /\ e[k][2] \in 0..(Len(netcdf.lon) - 1)
        /\ e[k] = PointOf(p, e[k][1], e[k][2])
        /\ F32Ne(Cell(p, e[k][1], e[k][2]), netcdf.fill)
    /\ \A r \in 0..(Len(netcdf.lat) - 1), c \in 0..(Len(netcdf.lon) - 1) :
        F32Ne(Cell(p, r, c), netcdf.fill)
        => Cardinality({k \in 1..Len(e) : e[k][1] = r /\ e[k][2] = c}) = 1
    /\ \A k \in 1..(Len(e) - 1) : RowMajorBefore(e[k], e[k + 1])

\* whether no cell of region p differs from the fill value
AllFill(p) ==
    \A i \in 1..Len(netcdf.regridweights[p]) :
        ~F32Ne(netcdf.regridweights[p][i], netcdf.fill)

\* C4: the entry from_weight_file builds of a region holds exactly one point
\* (r, c, lat[r], lon[c], G[r][c]) for each cell with G[r][c] != fill and no other
\* point, in row-major order; a region all of whose cells are fill has an empty
\* entry.
SparsityCorrect ==
    (weight.via = "from_weight_file" /\ weight.res.tag = "Ok")
    => /\ Len(Returned.polyid_gridpoints) = Len(netcdf.polyid)
       /\ \A p \in 1..Len(netcdf.polyid) :
            /\ IsSparseFormOf(Returned.polyid_gridpoints[p], p)
            /\ AllFill(p) => Returned.polyid_gridpoints[p] = <<>>

\* a 2 x 2 grid, a region with a point in the second row and the second column and
\* with fill cells, and a region with no point
SparsityWitness ==
    /\ weight.via = "from_weight_file" /\ weight.res.tag = "Ok"
    /\ Len(netcdf.lat) = 2 /\ Len(netcdf.lon) = 2
    /\ \E p, q \in 1..Len(netcdf.polyid) :
        /\ Len(Returned.polyid_gridpoints[p]) = 2
        /\ Returned.polyid_gridpoints[p][1][2] = 1
        /\ Returned.polyid_gridpoints[p][2][1] = 1
        /\ AllFill(q) /\ Returned.polyid_gridpoints[q] = <<>>

\* C5: in the lookup table of a model a constructor returned, the offset of entry i
\* is the sum of the counts of the entries before it (0 for the first) and its
\* count is the number of points of entry i.
OffsetConsistent ==
    weight.res.tag = "Ok"
    => \A i \in 1..Len(Returned.lookup_table) :
        /\ Returned.lookup_table[i][1] = CountsBefore(Returned.lookup_table, i)
        /\ i <= Len(Returned.polyid_gridpoints)
        /\ Returned.lookup_table[i][2] = Len(Returned.polyid_gridpoints[i])

\* C6: open on a dense source that from_weight_file ingests returns the ingested
\* model, whether the write of the cache file succeeds or fails.
CacheWriteIsAdvisory ==
    (weight.via = "open" /\ weight.path = "dense"
        /\ FromWeightFileResult(netcdf).tag = "Ok")
    => weight.res = FromWeightFileResult(netcdf)

\* C7: a model returned by from_weight_file or from_nwt has as many polyids as
\* lookup table entries and as entries.
CountInvariant ==
    (weight.via \in {"from_weight_file", "from_nwt"} /\ weight.res.tag = "Ok")
    => /\ Len(Returned.json_data.polyids) = Len(Returned.lookup_table)
       /\ Len(Returned.lookup_table) = Len(Returned.polyid_gridpoints)

\* whether attrs holds a value that is neither a string nor a string sequence,
\* the attributes named _FillValue left out when skipFill
HasUnsupported(attrs, skipFill) ==
    \E i \in 1..Len(attrs) :
        /\ attrs[i].kind \notin {"Str", "Strs"}
        /\ ~(skipFill /\ attrs[i].name = <<95, 70, 105, 108, 108, 86, 97, 108, 117, 101>>)

\* C8: from_weight_file on a source with a global attribute, or a variable
\* attribute not named _FillValue, whose value is neither a string nor a string
\* sequence returns an error, and no model.
UnsupportedAttributeFails ==
    (weight.via = "from_weight_file"
        /\ (HasUnsupported(netcdf.attrs, FALSE)
            \/ \E v \in 1..Len(netcdf.vars) : HasUnsupported(netcdf.vars[v].attrs, TRUE)))
    => weight.res.tag = "Err" /\ weight.res.val = <<>>

\* C9: add_variable for a name that is registered leaves the JsonData as it was.
AddVariableIdempotent ==
    (last.op = "add_variable" /\ last.var \in DOMAIN before.per_variable_attrs)
    => json_data = before

\* the little-endian value of the 4 bytes from offset at on (0-based)
U32At(bytes, at) ==
    bytes[at + 1] + 256 * bytes[at + 2] + 65536 * bytes[at + 3] + 16777216 * bytes[at + 4]

\* the little-endian value of the 8 bytes from offset at on, below 2^32
U64At(bytes, at) ==
    IF \A k \in 5..8 : bytes[at + k] = 0 THEN U32At(bytes, at) ELSE -1

\* the five 4-byte fields from offset at on
PointAt(bytes, at) == [f \in 1..5 |-> U32At(bytes, at + 4 * (f - 1))]

\* bytes is the magic, the six header fields, a metadata blob of blobLen bytes, the
\* lookup table and the points of the model self, and nothing else
HasLayout(bytes, self, blobLen) ==
    /\ SubSeq(bytes, 1, 4) = <<78, 69, 87, 84>>
    /\ U64At(bytes, 4) = blobLen
    /\ U64At(bytes, 12) = Len(self.json_data.polyids)
    /\ U64At(bytes, 20) = self.lat_len
    /\ U64At(bytes, 28) = self.lon_len
    /\ U64At(bytes, 36) = 52
    /\ U64At(bytes, 44) = 52 + blobLen
    /\ Len(bytes) = 52 + blobLen + 16 * Len(self.lookup_table)
                    + 20 * PointsBefore(self.polyid_gridpoints,
                                        Len(self.polyid_gridpoints) + 1)
    /\ FromJson(SubSeq(bytes, 53, 52 + blobLen)).ok
    /\ FromJson(SubSeq(bytes, 53, 52 + blobLen)).val = self.json_data
    /\ \A i \in 1..Len(self.lookup_table) :
        /\ U64At(bytes, 52 + blobLen + 16 * (i - 1)) = self.lookup_table[i][1]
        /\ U64At(bytes, 52 + blobLen + 16 * (i - 1) + 8) = self.lookup_table[i][2]
    /\ \A i \in 1..Len(self.polyid_gridpoints) :
        \A k \in 1..Len(self.polyid_gridpoints[i]) :
            PointAt(bytes, 52 + blobLen + 16 * Len(self.lookup_table)
                           + 20 * (PointsBefore(self.polyid_gridpoints, i) + k - 1))
            = self.polyid_gridpoints[i][k]

\* C10: a file that a serialize_to_file call which returned Ok wrote starts with
\* NEWT and six little-endian u64 fields: the length of the metadata blob, the
\* region count, the row count, the column count, the blob offset 52 and the lookup
\* table offset 52 + the blob length; the blob, 16 bytes per lookup table entry and
\* 20 bytes per point follow.
HeaderLayout ==
    (file.exists /\ ser.tag = "Ok")
    => Len(file.bytes) >= 52 /\ HasLayout(file.bytes, file.self, U64At(file.bytes, 4))

\* C11: for a model from_weight_file built, the points of get_raw_gridpoints() from
\* position lookup_table[i].offset on, lookup_table[i].count of them, are the
\* points of entry i in order, for every region i; and the list has as many points
\* as the counts sum to.
DirectIndexing ==
    (raw.called /\ weight.via = "from_weight_file" /\ weight.res.tag = "Ok")
    => /\ \A i \in 1..Len(Returned.lookup_table) :
            /\ Returned.lookup_table[i][1] + Returned.lookup_table[i][2] <= Len(raw.val)
            /\ SubSeq(raw.val, Returned.lookup_table[i][1] + 1,
                      Returned.lookup_table[i][1] + Returned.lookup_table[i][2])
               = Returned.polyid_gridpoints[i]
       /\ Len(raw.val) = CountsBefore(Returned.lookup_table,
                                      Len(Returned.lookup_table) + 1)

\* get_raw_gridpoints was called on a model whose second region starts at a
\* position other than 0 and holds a point
DirectIndexingWitness ==
    /\ raw.called /\ weight.via = "from_weight_file" /\ weight.res.tag = "Ok"
    /\ Len(Returned.lookup_table) >= 2
    /\ Returned.lookup_table[2][1] > 0
    /\ Returned.lookup_table[2][2] > 0
    /\ Len(raw.val) = MaxPoints

====
